---------------------------- MODULE Spec2Model ----------------------------
(***************************************************************************)
(* The event-driven ID3v2 parser of mp3_event_parser.py (ID3v2Parser) and  *)
(* its caller find_in_tree of mp3_compare_dir.py.                          *)
(*                                                                         *)
(* A byte is an integer in 0..255, a byte string (Python 2 str) is a       *)
(* sequence of bytes, a unicode string is a sequence of code points.       *)
(* Python's 0-based half-open slices are written Slice(s, a, b).           *)
(* The native byte order of the 'utf-16' codec is little-endian (x86).     *)
(* The caller passes aatpath = False (mp3_compare_dir.py:114), so the      *)
(* aatpath branch of parse_id3v2_file is not taken.                        *)
(***************************************************************************)
EXTENDS Integers, Sequences, FiniteSets, TLC

---------------------------------------------------------------------------
(* Python primitives used by the parser *)

Min(a, b) == IF a < b THEN a ELSE b

\* s[a:b] for 0 <= a, 0 <= b
Slice(s, a, b) == SubSeq(s, a + 1, Min(b, Len(s)))

\* s[a:]
SliceFrom(s, a) == SubSeq(s, a + 1, Len(s))

\* struct format 'b': a byte read as a signed char
SignedByte(b) == IF b > 127 THEN b - 256 ELSE b

\* struct format '<H' on two bytes
UnpackLEShort(b) == b[1] + 256 * b[2]

\* struct format '>I' on four bytes
UnpackBEInt(b) == ((b[1] * 256 + b[2]) * 256 + b[3]) * 256 + b[4]

\* struct format '>H' on two bytes
UnpackBEShort(b) == b[1] * 256 + b[2]

\* the 16-bit units of an even-length byte string, in the given byte order
RECURSIVE Units(_, _)
Units(b, le) ==
    IF Len(b) < 2 THEN <<>>
    ELSE << IF le THEN b[1] + 256 * b[2] ELSE b[2] + 256 * b[1] >>
         \o Units(SliceFrom(b, 2), le)

IsHighSurrogate(u) == u >= 55296 /\ u <= 56319

IsLowSurrogate(u) == u >= 56320 /\ u <= 57343

\* strict surrogate handling of the UTF-16 codec on a sequence of units
RECURSIVE DecodeUnits(_)
DecodeUnits(u) ==
    IF u = <<>> THEN [ok |-> TRUE, val |-> <<>>]
    ELSE IF IsLowSurrogate(u[1]) THEN [ok |-> FALSE, val |-> <<>>]
    ELSE IF IsHighSurrogate(u[1]) THEN
        IF Len(u) < 2 \/ ~IsLowSurrogate(u[2]) THEN [ok |-> FALSE, val |-> <<>>]
        ELSE LET rest == DecodeUnits(SliceFrom(u, 2))
                 cp   == 65536 + (u[1] - 55296) * 1024 + (u[2] - 56320)
             IN  IF rest.ok THEN [ok |-> TRUE, val |-> <<cp>> \o rest.val] ELSE rest
    ELSE LET rest == DecodeUnits(SliceFrom(u, 1))
         IN  IF rest.ok THEN [ok |-> TRUE, val |-> <<u[1]>> \o rest.val] ELSE rest

\* str.decode('utf-16'): a leading byte-order mark selects the byte order and
\* is dropped, without one the order is the native one; an odd length or a
\* stray surrogate raises UnicodeDecodeError (ok = FALSE)
decode_utf16(b) ==
    LET bom  == IF Len(b) >= 2 THEN UnpackLEShort(b) ELSE 0
        le   == bom # 65534
        body == IF bom = 65279 \/ bom = 65534 THEN SliceFrom(b, 2) ELSE b
    IN  IF Len(body) % 2 # 0 THEN [ok |-> FALSE, val |-> <<>>]
        ELSE DecodeUnits(Units(body, le))

---------------------------------------------------------------------------
(* The string decoders, module level functions of mp3_event_parser.py *)

\* a variant of unpack_string_from that does not count the terminator as
\* consumed
RECURSIVE unpack_string_from_NotCounted(_, _)
unpack_string_from_NotCounted(bytes, i) ==
    IF i < Len(bytes) THEN
        IF bytes[i + 1] = 0 THEN [consumed |-> i, string |-> Slice(bytes, 0, i)]
        ELSE unpack_string_from_NotCounted(bytes, i + 1)
    ELSE [consumed |-> Len(bytes), string |-> <<>>]

\* the while loop of unpack_string from index i on
RECURSIVE unpack_string_from(_, _)
unpack_string_from(bytes, i) ==
    IF i < Len(bytes) THEN
        IF bytes[i + 1] = 0 THEN [consumed |-> i + 1, string |-> Slice(bytes, 0, i)]
        ELSE unpack_string_from(bytes, i + 1)
    ELSE [consumed |-> Len(bytes), string |-> <<>>]

\* unpack_string(bytes): (number of bytes consumed, string)
unpack_string(bytes) == unpack_string_from(bytes, 0)

\* the while loop of unpack_unicode from index i on; ok = FALSE when the
\* decode of the units before the terminator raises UnicodeDecodeError
RECURSIVE unpack_unicode_from(_, _)
unpack_unicode_from(bytes, i) ==
    IF i + 1 < Len(bytes) THEN
        IF UnpackLEShort(Slice(bytes, i, i + 2)) = 0 THEN
            LET d == decode_utf16(Slice(bytes, 0, i))
            IN  [ok |-> d.ok, consumed |-> i + 2, string |-> d.val]
        ELSE unpack_unicode_from(bytes, i + 2)
    ELSE [ok |-> TRUE, consumed |-> Len(bytes), string |-> <<>>]

\* a variant of unpack_unicode whose scan starts at the second unit
unpack_unicode_FromSecond(bytes) == unpack_unicode_from(bytes, 2)

\* unpack_unicode(bytes): (number of bytes consumed, string)
unpack_unicode(bytes) == unpack_unicode_from(bytes, 0)

---------------------------------------------------------------------------
(* Frame type codes, four ASCII bytes each *)

APIC == <<65, 80, 73, 67>>

COMM == <<67, 79, 77, 77>>

GEOB == <<71, 69, 79, 66>>

MCDI == <<77, 67, 68, 73>>

PRIV == <<80, 82, 73, 86>>

TALB == <<84, 65, 76, 66>>

TBPM == <<84, 66, 80, 77>>

TCOM == <<84, 67, 79, 77>>

TCON == <<84, 67, 79, 78>>

TCOP == <<84, 67, 79, 80>>

TENC == <<84, 69, 78, 67>>

TFLT == <<84, 70, 76, 84>>

TIT1 == <<84, 73, 84, 49>>

TIT2 == <<84, 73, 84, 50>>

TIT3 == <<84, 73, 84, 51>>

TLEN == <<84, 76, 69, 78>>

TPE1 == <<84, 80, 69, 49>>

TPE2 == <<84, 80, 69, 50>>

TPE3 == <<84, 80, 69, 51>>

TPOS == <<84, 80, 79, 83>>

TPUB == <<84, 80, 85, 66>>

TRCK == <<84, 82, 67, 75>>

TXXX == <<84, 88, 88, 88>>

TYER == <<84, 89, 69, 82>>

USLT == <<85, 83, 76, 84>>

\* the types parse_id3v2dot3_frame_data hands to parse_text_info_frame
TextInfoTypes ==
    {TALB, TBPM, TCOM, TCON, TCOP, TENC, TFLT, TIT1, TIT2, TIT3, TLEN, TPE1,
     TPE2, TPE3, TPOS, TPUB, TRCK, TXXX, TYER}

\* every type parse_id3v2dot3_frame_data has a branch for
RegisteredTypes == TextInfoTypes \cup {APIC, COMM, GEOB, MCDI, PRIV, USLT}

---------------------------------------------------------------------------
(* The frame body decoders.  Each returns                                  *)
(*   exc    "none", or the exception the call raises                       *)
(*   dict   the frame_dict returned; the empty dict {} is << >>            *)
(*   prints the messages handed to __print_error, in order                 *)

\* what a decoder does that ends in  return frame_dict
Decoded(dict) == [exc |-> "none", dict |-> dict, prints |-> <<>>]

\* what a decoder does that ends in an exception
Raised(exc) == [exc |-> exc, dict |-> <<>>, prints |-> <<>>]

\* self.__print_error("Unknown frame encoding {0:02x}".format(frame_encoding))
\* followed by  return {}
UnknownEncoding(frame_encoding) ==
    [exc |-> "none", dict |-> <<>>,
     prints |-> << [msg |-> "Unknown frame encoding", arg |-> <<frame_encoding>>] >>]

\* a variant of parse_apic_frame whose picture starts right after the
\* description's text, at its terminator
parse_apic_frame_KeepsTerminator(frame_data) ==
    IF Len(frame_data) = 0 THEN Raised("IndexError")
    ELSE
    LET frame_encoding == frame_data[1]
        m == unpack_string(SliceFrom(frame_data, 1))
        mime_len == m.consumed
    IN  IF 1 + mime_len >= Len(frame_data) THEN Raised("IndexError")
        ELSE IF frame_encoding = 0 THEN
            LET d == unpack_string(SliceFrom(frame_data, 2 + mime_len))
            IN  Decoded([mime_type |-> m.string,
                         description_string |-> d.string,
                         picture_data |-> SliceFrom(frame_data, 2 + mime_len + Len(d.string))])
        ELSE IF frame_encoding = 1 THEN
            LET d == unpack_unicode(SliceFrom(frame_data, 2 + mime_len))
            IN  IF ~d.ok THEN Raised("UnicodeDecodeError")
                ELSE Decoded([mime_type |-> m.string,
                              description_string |-> d.string,
                              picture_data |-> SliceFrom(frame_data, 2 + mime_len + 2 * Len(d.string))])
        ELSE UnknownEncoding(frame_encoding)

parse_apic_frame(frame_data) ==
    IF Len(frame_data) = 0 THEN Raised("IndexError")
    ELSE
    LET frame_encoding == frame_data[1]
        m == unpack_string(SliceFrom(frame_data, 1))
        mime_len == m.consumed
    IN  IF 1 + mime_len >= Len(frame_data) THEN Raised("IndexError")
        ELSE IF frame_encoding = 0 THEN
            LET d == unpack_string(SliceFrom(frame_data, 2 + mime_len))
            IN  Decoded([mime_type |-> m.string,
                         description_string |-> d.string,
                         picture_data |-> SliceFrom(frame_data, 2 + mime_len + d.consumed)])
        ELSE IF frame_encoding = 1 THEN
            LET d == unpack_unicode(SliceFrom(frame_data, 2 + mime_len))
            IN  IF ~d.ok THEN Raised("UnicodeDecodeError")
                ELSE Decoded([mime_type |-> m.string,
                              description_string |-> d.string,
                              picture_data |-> SliceFrom(frame_data, 2 + mime_len + d.consumed)])
        ELSE UnknownEncoding(frame_encoding)

parse_comm_frame(frame_data) ==
    IF Len(frame_data) < 4 THEN Raised("struct.error")
    ELSE
    LET frame_encoding == SignedByte(frame_data[1])
        language == IF frame_data[2] = 0 THEN <<>> ELSE Slice(frame_data, 1, 4)
    IN  IF frame_encoding = 0 THEN
            LET d == unpack_string(SliceFrom(frame_data, 4))
            IN  Decoded([language |-> language,
                         descriptor_string |-> d.string,
                         comment_string |-> SliceFrom(frame_data, 4 + d.consumed)])
        ELSE IF frame_encoding = 1 THEN
            LET d == unpack_unicode(SliceFrom(frame_data, 4))
                c == decode_utf16(SliceFrom(frame_data, 4 + d.consumed))
            IN  IF ~d.ok \/ ~c.ok THEN Raised("UnicodeDecodeError")
                ELSE Decoded([language |-> language,
                              descriptor_string |-> d.string,
                              comment_string |-> c.val])
        ELSE UnknownEncoding(frame_encoding)

parse_geob_frame(frame_data) ==
    IF Len(frame_data) = 0 THEN Raised("IndexError")
    ELSE
    LET frame_encoding == frame_data[1]
        m == unpack_string(SliceFrom(frame_data, 1))
        mime_len == m.consumed
    IN  IF frame_encoding = 0 THEN
            LET d == unpack_string(SliceFrom(frame_data, 1 + mime_len))
                f == unpack_string(SliceFrom(frame_data, 1 + mime_len + d.consumed))
            IN  Decoded([mime_type |-> m.string,
                         description_string |-> d.string,
                         filename_string |-> f.string,
                         binary_data |-> SliceFrom(frame_data, 1 + mime_len + d.consumed + f.consumed)])
        ELSE IF frame_encoding = 1 THEN
            LET d == unpack_unicode(SliceFrom(frame_data, 1 + mime_len))
                f == unpack_unicode(SliceFrom(frame_data, 1 + mime_len + d.consumed))
            IN  IF ~d.ok \/ ~f.ok THEN Raised("UnicodeDecodeError")
                ELSE Decoded([mime_type |-> m.string,
                              description_string |-> d.string,
                              filename_string |-> f.string,
                              binary_data |-> SliceFrom(frame_data, 1 + mime_len + d.consumed + f.consumed)])
        ELSE UnknownEncoding(frame_encoding)

parse_mcdi_frame(frame_data) == Decoded([identifier_data |-> frame_data])

parse_priv_frame(frame_data) ==
    LET o == unpack_string(frame_data)
    IN  Decoded([owner_string |-> o.string,
                 private_data |-> SliceFrom(frame_data, o.consumed)])

\* a variant of parse_text_info_frame that reads the encoding 0 text as a
\* nul-terminated string
parse_text_info_frame_Terminated(frame_data) ==
    IF Len(frame_data) = 0 THEN Raised("IndexError")
    ELSE
    LET frame_encoding == frame_data[1]
    IN  IF frame_encoding = 0 THEN
            Decoded([frame_string |-> unpack_string(SliceFrom(frame_data, 1)).string])
        ELSE IF frame_encoding = 1 THEN
            LET s == decode_utf16(SliceFrom(frame_data, 1))
            IN  IF ~s.ok THEN Raised("UnicodeDecodeError")
                ELSE Decoded([frame_string |-> s.val])
        ELSE UnknownEncoding(frame_encoding)

parse_text_info_frame(frame_data) ==
    IF Len(frame_data) = 0 THEN Raised("IndexError")
    ELSE
    LET frame_encoding == frame_data[1]
    IN  IF frame_encoding = 0 THEN
            Decoded([frame_string |-> SliceFrom(frame_data, 1)])
        ELSE IF frame_encoding = 1 THEN
            LET s == decode_utf16(SliceFrom(frame_data, 1))
            IN  IF ~s.ok THEN Raised("UnicodeDecodeError")
                ELSE Decoded([frame_string |-> s.val])
        ELSE UnknownEncoding(frame_encoding)

parse_uslt_frame(frame_data) ==
    IF Len(frame_data) < 4 THEN Raised("struct.error")
    ELSE
    LET frame_encoding == SignedByte(frame_data[1])
        language == IF frame_data[2] = 0 THEN <<>> ELSE Slice(frame_data, 1, 4)
    IN  IF frame_encoding = 0 THEN
            LET d == unpack_string(SliceFrom(frame_data, 4))
            IN  Decoded([language |-> language,
                         descriptor_string |-> d.string,
                         lyrics_string |-> SliceFrom(frame_data, 4 + d.consumed)])
        ELSE IF frame_encoding = 1 THEN
            LET d == unpack_unicode(SliceFrom(frame_data, 4))
                c == decode_utf16(SliceFrom(frame_data, 4 + d.consumed))
            IN  IF ~d.ok \/ ~c.ok THEN Raised("UnicodeDecodeError")
                ELSE Decoded([language |-> language,
                              descriptor_string |-> d.string,
                              lyrics_string |-> c.val])
        ELSE UnknownEncoding(frame_encoding)

---------------------------------------------------------------------------
(* What a method of the parser does, in order: a sequence of effects       *)
(*   call    self.handler.<name>(args...)                                 *)
(*   print   self.__print_error(name) with the formatted value in args     *)
(*   read    self.f.read(...) that returned args[1] bytes                  *)
(*   assign  self.<name> = args[1]                                         *)
(* line is the source line of the statement.                               *)

Call(line, name, args) == [op |-> "call", line |-> line, name |-> name, args |-> args]

PrintError(line, msg, arg) == [op |-> "print", line |-> line, name |-> msg, args |-> arg]

Read(line, bytes) == [op |-> "read", line |-> line, name |-> "f", args |-> <<Len(bytes)>>]

Assign(line, name, value) == [op |-> "assign", line |-> line, name |-> name, args |-> <<value>>]

\* the result of a method: how it ended ("return" or "raise"), at which
\* line, the value returned or the exception raised, and its effects
Return(line, value, trace) ==
    [how |-> "return", line |-> line, value |-> value, exc |-> "none", trace |-> trace]

Raise(line, exc, trace) ==
    [how |-> "raise", line |-> line, value |-> FALSE, exc |-> exc, trace |-> trace]

\* __print_error(msg): the line written to stderr, tagged with self.path
__print_error(path, msg, arg) == [path |-> path, msg |-> msg, arg |-> arg]

---------------------------------------------------------------------------
(* ID3v2Parser.parse_id3v2dot3_frame_data *)

\* the if/elif chain on frame_type
FrameDecoder(frame_type, frame_data) ==
    IF frame_type = APIC THEN parse_apic_frame(frame_data)
    ELSE IF frame_type = COMM THEN parse_comm_frame(frame_data)
    ELSE IF frame_type = GEOB THEN parse_geob_frame(frame_data)
    ELSE IF frame_type = MCDI THEN parse_mcdi_frame(frame_data)
    ELSE IF frame_type = PRIV THEN parse_priv_frame(frame_data)
    ELSE IF frame_type \in TextInfoTypes THEN parse_text_info_frame(frame_data)
    ELSE parse_uslt_frame(frame_data)

\* the effects of the decoder's __print_error calls
RECURSIVE DecoderPrints(_, _)
DecoderPrints(line, prints) ==
    IF prints = <<>> THEN <<>>
    ELSE <<PrintError(line, prints[1].msg, prints[1].arg)>>
         \o DecoderPrints(line, SliceFrom(prints, 1))

\* a variant of UnknownFrameType that hands the handler a record as well
UnknownFrameType_Record(frame_type) ==
    Return(231, FALSE, << PrintError(228, "Do not know frame type", frame_type),
                          Call(231, "on_id3v2dot3_frame", <<frame_type, <<>>>>) >>)

\* the else branch: the type has no decoder
UnknownFrameType(frame_type) ==
    Return(229, FALSE, <<PrintError(228, "Do not know frame type", frame_type)>>)

parse_id3v2dot3_frame_data(frame_type, frame_data) ==
    IF frame_type \notin RegisteredTypes THEN UnknownFrameType(frame_type)
    ELSE
        LET d == FrameDecoder(frame_type, frame_data)
        IN  IF d.exc # "none" THEN Raise(260, d.exc, <<>>)
            ELSE Return(231, FALSE,
                        DecoderPrints(260, d.prints)
                        \o <<Call(231, "on_id3v2dot3_frame", <<frame_type, d.dict>>)>>)

---------------------------------------------------------------------------
(* ID3v2Parser.parse_id3v2dot3_frame *)

\* a variant of AtExtent with > for >=
AtExtent_Strict(tell, size) == tell + 10 > size

\* if self.f.tell() + 10 >= self.id3v2_size
AtExtent(tell, size) == tell + 10 >= size

\* if frame_type == '\x00\x00\x00\x00'
IsPadding(frame_type) == frame_type = <<0, 0, 0, 0>>

\* a variant of IsEmptyFrame that lets a frame of size 0 through
IsEmptyFrame_Never(frame_size) == FALSE

\* if frame_size == 0
IsEmptyFrame(frame_size) == frame_size = 0

\* a variant of FrameBody that reports the raw body before the parsed header
FrameBody_RawFirst(data, tell, frame_type, frame_size, frame_flags) ==
    LET frame_data == Slice(data, tell, tell + frame_size)
        d == parse_id3v2dot3_frame_data(frame_type, frame_data)
        trace == << Read(256, frame_data),
                    Call(258, "on_raw_id3v2dot3_frame", <<frame_type, frame_data>>),
                    Call(254, "on_id3v2dot3_frame_header", <<frame_type, frame_size, frame_flags>>) >>
                 \o d.trace
    IN  IF d.how = "raise" THEN Raise(260, d.exc, trace)
        ELSE Return(262, TRUE, trace)

\* a variant of FrameBody whose read of the body leaves the offset where it
\* was
FrameBody_NoAdvance(data, tell, frame_type, frame_size, frame_flags) ==
    LET frame_data == Slice(data, tell, tell + frame_size)
        d == parse_id3v2dot3_frame_data(frame_type, frame_data)
        trace == << Call(254, "on_id3v2dot3_frame_header", <<frame_type, frame_size, frame_flags>>),
                    Read(256, <<>>),
                    Call(258, "on_raw_id3v2dot3_frame", <<frame_type, frame_data>>) >>
                 \o d.trace
    IN  IF d.how = "raise" THEN Raise(260, d.exc, trace)
        ELSE Return(262, TRUE, trace)

\* a variant of FrameBody that hands the raw body over only for a type
\* that has no decoder
FrameBody_RawIfUnknown(data, tell, frame_type, frame_size, frame_flags) ==
    LET frame_data == Slice(data, tell, tell + frame_size)
        d == parse_id3v2dot3_frame_data(frame_type, frame_data)
        trace == << Call(254, "on_id3v2dot3_frame_header", <<frame_type, frame_size, frame_flags>>),
                    Read(256, frame_data) >>
                 \o (IF frame_type \in RegisteredTypes THEN <<>>
                     ELSE <<Call(258, "on_raw_id3v2dot3_frame", <<frame_type, frame_data>>)>>)
                 \o d.trace
    IN  IF d.how = "raise" THEN Raise(260, d.exc, trace)
        ELSE Return(262, TRUE, trace)

\* the calls between the header checks and the return, for a frame that
\* has passed them
FrameBody(data, tell, frame_type, frame_size, frame_flags) ==
    LET frame_data == Slice(data, tell, tell + frame_size)
        d == parse_id3v2dot3_frame_data(frame_type, frame_data)
        trace == << Call(254, "on_id3v2dot3_frame_header", <<frame_type, frame_size, frame_flags>>),
                    Read(256, frame_data),
                    Call(258, "on_raw_id3v2dot3_frame", <<frame_type, frame_data>>) >>
                 \o d.trace
    IN  IF d.how = "raise" THEN Raise(260, d.exc, trace)
        ELSE Return(262, TRUE, trace)

\* a variant of ShortFrameHeader that returns without a diagnostic
ShortFrameHeader_Silent(head) == Return(244, FALSE, head)

\* a variant of ShortFrameHeader that returns True: the loop goes on
ShortFrameHeader_GoesOn(head) ==
    Return(244, TRUE, head \o <<PrintError(243, "Frame header not 10 bytes", <<>>)>>)

\* if len(frame_header) != 10: the diagnostic and  return False
ShortFrameHeader(head) ==
    Return(244, FALSE, head \o <<PrintError(243, "Frame header not 10 bytes", <<>>)>>)

\* a variant of parse_id3v2dot3_frame whose reads end at the extent
parse_id3v2dot3_frame_Bounded(data, tell, size) ==
    IF AtExtent(tell, size) THEN Return(236, FALSE, <<>>)
    ELSE
    LET frame_header == Slice(data, tell, tell + 10)
        head == << Read(238, frame_header),
                   Call(240, "on_raw_id3v2dot3_frame_header", <<frame_header>>) >>
    IN  IF Len(frame_header) # 10 THEN ShortFrameHeader(head)
        ELSE
        LET frame_type  == Slice(frame_header, 0, 4)
            frame_size  == UnpackBEInt(Slice(frame_header, 4, 8))
            frame_flags == UnpackBEShort(Slice(frame_header, 8, 10))
        IN  IF IsPadding(frame_type) THEN Return(249, FALSE, head)
            ELSE IF IsEmptyFrame(frame_size) THEN Return(252, FALSE, head)
            ELSE LET b == FrameBody(Slice(data, 0, size), tell + 10, frame_type, frame_size, frame_flags)
                 IN  [b EXCEPT !.trace = head \o b.trace]

parse_id3v2dot3_frame(data, tell, size) ==
    IF AtExtent(tell, size) THEN Return(236, FALSE, <<>>)
    ELSE
    LET frame_header == Slice(data, tell, tell + 10)
        head == << Read(238, frame_header),
                   Call(240, "on_raw_id3v2dot3_frame_header", <<frame_header>>) >>
    IN  IF Len(frame_header) # 10 THEN ShortFrameHeader(head)
        ELSE
        LET frame_type  == Slice(frame_header, 0, 4)
            frame_size  == UnpackBEInt(Slice(frame_header, 4, 8))
            frame_flags == UnpackBEShort(Slice(frame_header, 8, 10))
        IN  IF IsPadding(frame_type) THEN Return(249, FALSE, head)
            ELSE IF IsEmptyFrame(frame_size) THEN Return(252, FALSE, head)
            ELSE LET b == FrameBody(data, tell + 10, frame_type, frame_size, frame_flags)
                 IN  [b EXCEPT !.trace = head \o b.trace]

---------------------------------------------------------------------------
(* ID3v2Parser.parse_id3v2_file, from the open of the file to the loop *)

ID3 == <<73, 68, 51>>

\* a variant of BadIdentifier that compares the first two bytes only
BadIdentifier_TwoBytes(file_identifier) == Slice(file_identifier, 0, 2) # <<73, 68>>

\* if file_identifier != 'ID3'
BadIdentifier(file_identifier) == file_identifier # ID3

\* if version == 255 or revision == 255, on the values struct format 'b' gives
BadVersion(version, revision) == version = 255 \/ revision = 255

\* if byte > 127, on a value struct format 'b' gives
BadSizeByte(byte) == byte > 127

\* a variant of ShiftIn that shifts by a whole byte
ShiftIn_Byte(size, byte) == size * 256 + byte

\* size = (size << 7) + byte
ShiftIn(size, byte) == size * 128 + byte

\* the for loop over size_bytes: ok = FALSE when it ends in the return of
\* line 316
RECURSIVE SizeLoop(_, _)
SizeLoop(size_bytes, size) ==
    IF size_bytes = <<>> THEN [ok |-> TRUE, size |-> size]
    ELSE IF BadSizeByte(size_bytes[1]) THEN [ok |-> FALSE, size |-> size]
    ELSE SizeLoop(SliceFrom(size_bytes, 1), ShiftIn(size, size_bytes[1]))

\* struct.unpack('bbbb', header[6:10])
UnpackSizeBytes(header) ==
    << SignedByte(header[7]), SignedByte(header[8]),
       SignedByte(header[9]), SignedByte(header[10]) >>

\* if version <> 3: the branch calls self.print_error, a name the class
\* does not define (its method is the private __print_error), so the
\* attribute lookup raises AttributeError
UnsupportedVersion(version, trace) ==
    Raise(324, "AttributeError", trace)

\* a variant of ParsedHeader that reads the 10 bytes of an extended header
\* when bit 0x40 of the flags is set
ParsedHeader_ExtendedHeader(version, revision, flags, size) ==
    << Assign(319, "id3v2_size", size + 10),
       Call(321, "on_id3v2_header", <<version, revision, flags, size>>) >>
    \o (IF ((flags + 256) % 256) \div 64 % 2 = 1
        THEN <<Read(321, <<0, 0, 0, 0, 0, 0, 0, 0, 0, 0>>)>> ELSE <<>>)

\* what follows the size loop: the extent is set and the parsed header is
\* handed over.  The locals unsynchronization, compressed, extended_header
\* and experimental that lines 298-309 compute from flags are never read,
\* so flags reaches nothing but this call
ParsedHeader(version, revision, flags, size) ==
    << Assign(319, "id3v2_size", size + 10),
       Call(321, "on_id3v2_header", <<version, revision, flags, size>>) >>

\* value is TRUE when the while loop over the frames is entered
parse_id3v2_header(data) ==
    LET header == Slice(data, 0, 10)
        head == << Read(280, header), Call(282, "on_raw_id3v2_header", <<header>>) >>
    IN  IF Len(header) # 10 THEN
            Return(286, FALSE, head \o <<PrintError(285, "No ID3v2 header", <<>>)>>)
        ELSE
        LET file_identifier == Slice(header, 0, 3)
            version  == SignedByte(header[4])
            revision == SignedByte(header[5])
            flags    == SignedByte(header[6])
        IN  IF BadIdentifier(file_identifier) THEN
                Return(292, FALSE, head \o <<PrintError(291, "No ID3v2 identifier", <<>>)>>)
            ELSE IF BadVersion(version, revision) THEN
                Return(296, FALSE, head \o <<PrintError(295, "Invalid ID3v2 version", <<>>)>>)
            ELSE
            LET s == SizeLoop(UnpackSizeBytes(header), 0)
                parsed == head \o ParsedHeader(version, revision, flags, s.size)
            IN  IF ~s.ok THEN
                    Return(316, FALSE, head \o <<PrintError(315, "Invalid ID3v2 size byte", <<>>)>>)
                ELSE IF version # 3 THEN UnsupportedVersion(version, parsed)
                ELSE Return(327, TRUE, parsed)

---------------------------------------------------------------------------
(* The handler objects *)

\* the methods the docstring of ID3v2Parser requires of a handler
ContractMethods ==
    {"on_path", "on_aatpath", "on_raw_id3v2_header", "on_id3v2_header",
     "on_raw_id3v2dot3_frame_header", "on_id3v2dot3_frame_header",
     "on_raw_id3v2dot3_frame", "on_id3v2dot3_frame"}

\* the methods of class FileInfoBuilder of mp3_compare_dir.py
FileInfoBuilderMethods ==
    {"get_error", "get_file_info", "on_error", "on_id3v2dot3_frame", "on_path"}

\* the handlers find_in_tree is run with: FileInfoBuilder as it is written,
\* and FileInfoBuilder given the methods the docstring of ID3v2Parser
\* requires of a handler
Handlers == {FileInfoBuilderMethods, FileInfoBuilderMethods \cup ContractMethods}

---------------------------------------------------------------------------
(* The files on disk: byte strings built from tag headers and frames *)

\* most frames a generated file holds
MaxFrames == 2

\* most files one directory listing of several files holds
MaxFiles == 2

TagHeader(identifier, version, revision, flags, size_bytes) ==
    identifier \o <<version, revision, flags>> \o size_bytes

\* n < 2^14 as four synchsafe bytes
Synchsafe(n) == <<0, 0, n \div 128, n % 128>>

\* a frame with frame flags 0: type, big-endian size < 2^16, flags, body
Frame(frame_type, frame_size, body) ==
    frame_type \o <<0, 0, frame_size \div 256, frame_size % 256>> \o <<0, 0>> \o body

TextLatin1 == Frame(TALB, 2, <<0, 65>>)

TextUtf16 == Frame(TIT2, 5, <<1, 65, 0, 0, 0>>)

TextBadEncoding == Frame(TPE1, 2, <<2, 65>>)

TextOddUtf16 == Frame(TRCK, 2, <<1, 65>>)

UnknownType == Frame(<<90, 90, 90, 90>>, 2, <<7, 7>>)

Padding == Frame(<<0, 0, 0, 0>>, 0, <<>>)

ZeroTypeSized == Frame(<<0, 0, 0, 0>>, 2, <<1, 1>>)

ZeroSizeTyped == Frame(TALB, 0, <<>>)

Comment == Frame(COMM, 6, <<0, 101, 110, 103, 0, 65>>)

CommentBadEncoding == Frame(COMM, 6, <<3, 101, 110, 103, 0, 65>>)

CommentShort == Frame(COMM, 2, <<0, 101>>)

Picture == Frame(APIC, 5, <<0, 0, 3, 0, 9>>)

PictureBadEncoding == Frame(APIC, 5, <<5, 0, 3, 0, 9>>)

Lyrics == Frame(USLT, 6, <<1, 0, 0, 0, 0, 0>>)

Private == Frame(PRIV, 2, <<0, 9>>)

\* declares 4 body bytes and holds 2
TextShortBody == Frame(TALB, 4, <<0, 65>>)

\* 3 bytes where a frame header should be
PartialHeader == <<84, 65, 76>>

FrameMenu ==
    {TextLatin1, TextUtf16, TextBadEncoding, TextOddUtf16, UnknownType, Padding,
     ZeroTypeSized, ZeroSizeTyped, Comment, CommentBadEncoding, CommentShort,
     Picture, PictureBadEncoding, Lyrics, Private, TextShortBody, PartialHeader}

\* the byte strings of at most n menu entries in a row
RECURSIVE FrameRuns(_)
FrameRuns(n) ==
    IF n = 0 THEN {<<>>}
    ELSE LET shorter == FrameRuns(n - 1)
         IN  shorter \cup {s \o f : s \in shorter, f \in FrameMenu}

\* version 3 tags around frames: the declared size is the frames' length,
\* 11 (the extent ends inside the first frame), or 20 more than is there
FramedFiles ==
    {TagHeader(ID3, 3, 0, 0, Synchsafe(n)) \o frames :
        <<frames, n>> \in UNION {{<<fr, Len(fr)>>, <<fr, 11>>, <<fr, Len(fr) + 20>>} :
                                    fr \in FrameRuns(MaxFrames)}}

\* every header field varied, before nothing and before a text frame
HeaderFiles ==
    {TagHeader(identifier, version, revision, flags, size_bytes) \o tail :
        identifier \in {ID3, <<73, 68, 50>>},
        version \in {2, 3, 4, 255},
        revision \in {0, 255},
        flags \in {0, 224},
        size_bytes \in {<<0, 0, 0, 0>>, <<0, 0, 0, 12>>, <<0, 0, 0, 128>>},
        tail \in {<<>>, TextLatin1}}

\* every combination of low, high and out-of-range size bytes
SizeFiles ==
    {TagHeader(ID3, 3, 0, 0, <<b0, b1, b2, b3>>) \o TextLatin1 :
        b0 \in {0, 1, 127, 128, 255}, b1 \in {0, 1, 127, 128, 255},
        b2 \in {0, 1, 127, 128, 255}, b3 \in {0, 1, 127, 128, 255}}

\* files that end inside the tag header
ShortFiles == {<<>>, ID3, TagHeader(ID3, 3, 0, 0, <<0, 0, 0>>)}

Files == FramedFiles \cup HeaderFiles \cup SizeFiles \cup ShortFiles

\* the files of a listing of several: one per way a parse can end
RunFiles ==
    { TagHeader(ID3, 3, 0, 0, Synchsafe(12)) \o TextLatin1,
      TagHeader(ID3, 3, 0, 0, Synchsafe(127)) \o TextLatin1 \o TextLatin1,
      TagHeader(<<73, 68, 50>>, 3, 0, 0, Synchsafe(12)) \o TextLatin1,
      TagHeader(ID3, 4, 0, 0, Synchsafe(12)) \o TextLatin1,
      TagHeader(ID3, 3, 0, 0, Synchsafe(12)) \o TextBadEncoding,
      TagHeader(ID3, 3, 0, 0, Synchsafe(12)) \o UnknownType,
      TagHeader(ID3, 3, 0, 0, Synchsafe(40)) \o TextLatin1 \o PartialHeader,
      TagHeader(ID3, 3, 0, 0, Synchsafe(40)) \o Frame(PRIV, 0, <<>>) \o TextLatin1,
      ID3 }

PathNames == <<"a.mp3", "b.mp3", "c.mp3", "d.mp3">>

\* a file on disk
File(i, data) == [path |-> PathNames[i], data |-> data]

\* the listings os.walk gives: one file of Files, or 2..MaxFiles of RunFiles
Listings ==
    {<<File(1, d)>> : d \in Files}
    \cup UNION {{[i \in 1..n |-> File(i, r[i])] : r \in [1..n -> RunFiles]} : n \in 2..MaxFiles}

---------------------------------------------------------------------------
(* The state *)

VARIABLES
    files,       \* the files the directory walk yields, in order, as they are on disk
    nfiles,      \* how many of them parse_id3v2_file has been called for
    pc,          \* "caller": between two calls of parse_id3v2_file;
                 \* "header": in the call, before the with block;
                 \* "frames": at the test of the while loop;
                 \* "raised": an exception has left parse_id3v2_file and its caller
    path,        \* self.path
    handler,     \* the methods of self.handler
    fopen,       \* self.f is an open file
    ftell,       \* self.f.tell()
    id3v2_size,  \* self.id3v2_size
    events,      \* the calls the current handler object has received
    stderr,      \* the lines __print_error has written
    log,         \* the handler calls and stderr lines of the current call of
                 \* parse_id3v2_file, in the order they happened
    line,        \* the line of the return or raise that ended the last step
    exc,         \* the exception that line raised, or "none"
    buffer,      \* the byte string a caller hands to unpack_string or unpack_unicode
    unpacked     \* what that call gave: the function called, whether it
                 \* returned (ok) or raised, and the tuple (consumed, string)

vars == <<files, nfiles, pc, path, handler, fopen, ftell, id3v2_size, events, stderr, log,
          line, exc, buffer, unpacked>>

\* no call of unpack_string or unpack_unicode has been made
NotCalled == [fn |-> "none", ok |-> TRUE, consumed |-> 0, string |-> <<>>]

\* the bytes of the file being parsed
Data == files[nfiles].data

Init ==
    /\ files \in Listings
    /\ nfiles = 0
    /\ pc = "caller"
    /\ path = "unset"
    /\ handler = ContractMethods
    /\ fopen = FALSE
    /\ ftell = 0
    /\ id3v2_size = "unset"
    /\ events = <<>>
    /\ stderr = <<>>
    /\ log = <<>>
    /\ line = 0
    /\ exc = "none"
    /\ buffer = <<>>
    /\ unpacked = NotCalled

---------------------------------------------------------------------------
(* Carrying out the effects of a step *)

\* the effects that happen: those before the first call of a method the
\* handler does not have (the attribute lookup raises AttributeError)
RECURSIVE Delivered(_, _)
Delivered(trace, methods) ==
    IF trace = <<>> THEN <<>>
    ELSE IF trace[1].op = "call" /\ trace[1].name \notin methods THEN <<>>
    ELSE <<trace[1]>> \o Delivered(SliceFrom(trace, 1), methods)

RECURSIVE CallsOf(_)
CallsOf(trace) ==
    IF trace = <<>> THEN <<>>
    ELSE (IF trace[1].op = "call" THEN <<[ev |-> trace[1].name, args |-> trace[1].args]>> ELSE <<>>)
         \o CallsOf(SliceFrom(trace, 1))

RECURSIVE PrintsOf(_, _)
PrintsOf(trace, p) ==
    IF trace = <<>> THEN <<>>
    ELSE (IF trace[1].op = "print" THEN <<__print_error(p, trace[1].name, trace[1].args)>> ELSE <<>>)
         \o PrintsOf(SliceFrom(trace, 1), p)

RECURSIVE BytesRead(_)
BytesRead(trace) ==
    IF trace = <<>> THEN 0
    ELSE (IF trace[1].op = "read" THEN trace[1].args[1] ELSE 0) + BytesRead(SliceFrom(trace, 1))

\* the value of self.id3v2_size after the assignments of a trace
RECURSIVE Assigned(_, _)
Assigned(trace, old) ==
    IF trace = <<>> THEN old
    ELSE Assigned(SliceFrom(trace, 1), IF trace[1].op = "assign" THEN trace[1].args[1] ELSE old)

\* the calls and prints of a trace, in order
RECURSIVE LogOf(_)
LogOf(trace) ==
    IF trace = <<>> THEN <<>>
    ELSE (IF trace[1].op \in {"call", "print"}
          THEN <<[op |-> trace[1].op, name |-> trace[1].name]>> ELSE <<>>)
         \o LogOf(SliceFrom(trace, 1))

\* how the step ends once the handler's missing methods are accounted for
Outcome(r, methods) ==
    LET done == Delivered(r.trace, methods)
    IN  IF Len(done) < Len(r.trace)
        THEN Raise(r.trace[Len(done) + 1].line, "AttributeError", done)
        ELSE r

\* a variant of StaysOpen for a file opened without the with statement: an
\* exception leaves it open
StaysOpen_NoWith(o) == o.how = "raise" \/ o.value

\* the file is open after a step when the step stays inside the with block:
\* it returned to go on with the loop
StaysOpen(o) == o.how = "return" /\ o.value

\* the state after a step of parse_id3v2_file with result r that began with
\* the file at offset tell: the loop goes on when r returns TRUE; a return
\* or an exception leaves the with block, which closes the file
Step(r, tell) ==
    LET o == Outcome(r, handler)
    IN  /\ events' = events \o CallsOf(o.trace)
        /\ stderr' = stderr \o PrintsOf(o.trace, path)
        /\ ftell' = tell + BytesRead(o.trace)
        /\ id3v2_size' = Assigned(o.trace, id3v2_size)
        /\ line' = o.line
        /\ exc' = o.exc
        /\ pc' = IF o.how = "raise" THEN "raised"
                 ELSE IF o.value THEN "frames" ELSE "caller"
        /\ fopen' = StaysOpen(o)
        /\ log' = log \o LogOf(o.trace)

---------------------------------------------------------------------------
(* parse_id3v2_file run from its first line to its end by an instance that *)
(* nothing was parsed with before: the handler's calls, the lines written  *)
(* to stderr and the exception that ended it, if one did                   *)

FreshResult(calls, prints, e) == [events |-> calls, stderr |-> prints, exc |-> e]

\* the while loop from offset tell on, with the extent the header gave
RECURSIVE FreshFrames(_, _, _, _, _)
FreshFrames(p, data, tell, size, methods) ==
    LET o == Outcome(parse_id3v2dot3_frame(data, tell, size), methods)
        rest == IF o.how = "return" /\ o.value
                THEN FreshFrames(p, data, tell + BytesRead(o.trace), size, methods)
                ELSE FreshResult(<<>>, <<>>, o.exc)
    IN  FreshResult(CallsOf(o.trace) \o rest.events, PrintsOf(o.trace, p) \o rest.stderr, rest.exc)

FreshParse(p, data, methods) ==
    LET first == Outcome(Return(268, TRUE, <<Call(268, "on_path", <<p>>)>>), methods)
        o == Outcome(parse_id3v2_header(data), methods)
        rest == IF o.how = "return" /\ o.value
                THEN FreshFrames(p, data, BytesRead(o.trace), Assigned(o.trace, "unset"), methods)
                ELSE FreshResult(<<>>, <<>>, o.exc)
    IN  IF first.how = "raise" THEN FreshResult(<<>>, <<>>, first.exc)
        ELSE FreshResult(CallsOf(first.trace) \o CallsOf(o.trace) \o rest.events,
                         PrintsOf(o.trace, p) \o rest.stderr, rest.exc)

---------------------------------------------------------------------------
(* The steps *)

\* the caller's loop takes the next file and calls parse_id3v2_file with a
\* new handler; the call runs to the with statement
ParseFile ==
    /\ pc = "caller"
    /\ nfiles < Len(files)
    /\ nfiles' = nfiles + 1
    /\ path' = files[nfiles + 1].path
    /\ LET o == Outcome(Return(268, TRUE, <<Call(268, "on_path", <<files[nfiles + 1].path>>)>>), handler)
       IN  /\ events' = CallsOf(o.trace)
           /\ log' = LogOf(o.trace)
           /\ pc' = IF o.how = "raise" THEN "raised" ELSE "header"
           /\ line' = o.line
           /\ exc' = o.exc
    /\ UNCHANGED <<files, handler, fopen, ftell, id3v2_size, stderr, buffer, unpacked>>

\* a variant of ReadHeader that reads on from the offset the last file was
\* left at
ReadHeader_NoReopen ==
    /\ pc = "header"
    /\ Step(parse_id3v2_header(Data), ftell)
    /\ UNCHANGED <<files, nfiles, path, handler, buffer, unpacked>>

\* the with block up to the while loop
ReadHeader ==
    /\ pc = "header"
    /\ Step(parse_id3v2_header(Data), 0)
    /\ UNCHANGED <<files, nfiles, path, handler, buffer, unpacked>>

\* one test of the while loop: one call of parse_id3v2dot3_frame
ParseFrame ==
    /\ pc = "frames"
    /\ Step(parse_id3v2dot3_frame(Data, ftell, id3v2_size), ftell)
    /\ UNCHANGED <<files, nfiles, path, handler, buffer, unpacked>>

Next == ParseFile \/ ReadHeader \/ ParseFrame

Spec == Init /\ [][Next]_vars

\* the interpreter keeps running the while loop it is in.  This is
\* WF_vars(ParseFrame) with ENABLED <<ParseFrame>>_vars written out: Step
\* gives every state with pc = "frames" a next state, and that state differs
\* (the loop is left or bytes are read; C19 checks it state by state)
LoopRuns == []<>(pc # "frames") \/ []<><<ParseFrame>>_vars

LiveSpec == Spec /\ LoopRuns

---------------------------------------------------------------------------
(* Files of one frame, with the body varied: every short byte string, and  *)
(* bodies built field by field for the text, comment and picture frames    *)

\* longest body enumerated byte by byte
MaxBody == 3

\* the byte values of the enumerated bodies: the two encodings, an encoding
\* that is not one, a letter, and the two bytes of a byte-order mark
BodyAlphabet == {0, 1, 2, 65, 254, 255}

\* every byte string over BodyAlphabet of 1..n bytes
RECURSIVE ByteStrings(_)
ByteStrings(n) ==
    IF n = 0 THEN {}
    ELSE LET shorter == ByteStrings(n - 1)
         IN  {<<b>> : b \in BodyAlphabet}
             \cup shorter \cup {s \o <<b>> : s \in shorter, b \in BodyAlphabet}

\* the UTF-16 little-endian bytes of a text of code points below 2^16
RECURSIVE Utf16LE(_)
Utf16LE(text) ==
    IF text = <<>> THEN <<>>
    ELSE <<text[1] % 256, text[1] \div 256>> \o Utf16LE(SliceFrom(text, 1))

\* texts in Latin-1: "", "A", "Rock", and e with an acute accent
Latin1Texts == {<<>>, <<65>>, <<82, 111, 99, 107>>, <<233>>}

\* texts as code points: the Latin-1 ones and the euro sign before "A"
Texts == Latin1Texts \cup {<<8364, 65>>}

\* the byte-order mark FF FE, or none
Marks == {<<>>, <<255, 254>>}

\* text frame bodies: encoding 0 and the text; encoding 1 and the text in
\* UTF-16, with or without a mark and a terminator
TextBodies ==
    {<<0>> \o t : t \in Latin1Texts}
    \cup {<<1>> \o m \o Utf16LE(t) \o z : m \in Marks, t \in Texts, z \in {<<>>, <<0, 0>>}}

\* comment and lyrics bodies: encoding, language, descriptor with its
\* terminator, text
CommentBodies ==
    {<<0>> \o l \o d \o <<0>> \o t :
        l \in {<<101, 110, 103>>, <<0, 0, 0>>}, d \in {<<>>, <<100>>}, t \in Latin1Texts}
    \cup {<<1>> \o l \o d \o <<0, 0>> \o m \o Utf16LE(t) :
        l \in {<<101, 110, 103>>, <<0, 0, 0>>},
        d \in {<<>>, <<100, 0>>, <<255, 254, 100, 0>>},
        m \in Marks, t \in Texts}

\* picture bodies: encoding, MIME type, its terminator or none, picture type
\* or none, description, its terminator or none, picture
PictureBodies ==
    {<<e>> \o mime \o mz \o pt \o d \o dz \o pic :
        e \in {0, 1},
        mime \in {<<>>, <<105>>, <<105, 47, 112>>},
        mz \in {<<>>, <<0>>},
        pt \in {<<>>, <<3>>},
        d \in {<<>>, <<100>>, <<100, 0>>, <<255, 254, 100, 0>>},
        dz \in {<<>>, <<0>>, <<0, 0>>},
        pic \in {<<>>, <<9>>, <<9, 0, 0, 7>>}}

\* a version 3 tag of exactly one frame, whole in the file and in the extent
OneFrameFile(frame_type, body) ==
    TagHeader(ID3, 3, 0, 0, Synchsafe(10 + Len(body))) \o Frame(frame_type, Len(body), body)

FrameFiles ==
    {OneFrameFile(t, b) : t \in {TCON, COMM, USLT, APIC, GEOB, PRIV, MCDI}, b \in ByteStrings(MaxBody)}
    \cup {OneFrameFile(t, b) : t \in {TCON, TIT2}, b \in TextBodies}
    \cup {OneFrameFile(t, b) : t \in {COMM, USLT}, b \in CommentBodies}
    \cup {OneFrameFile(APIC, b) : b \in PictureBodies}

\* the parser is handed one of these files
InitFrame ==
    /\ files \in {<<File(1, d)>> : d \in FrameFiles}
    /\ nfiles = 0
    /\ pc = "caller"
    /\ path = "unset"
    /\ handler = ContractMethods
    /\ fopen = FALSE
    /\ ftell = 0
    /\ id3v2_size = "unset"
    /\ events = <<>>
    /\ stderr = <<>>
    /\ log = <<>>
    /\ line = 0
    /\ exc = "none"
    /\ buffer = <<>>
    /\ unpacked = NotCalled

SpecFrame == InitFrame /\ [][Next]_vars

---------------------------------------------------------------------------
(* find_in_tree of mp3_compare_dir.py: the files of a tree parsed with a    *)
(* FileInfoBuilder each                                                     *)

InitTree ==
    /\ files \in Listings
    /\ nfiles = 0
    /\ pc = "caller"
    /\ path = "unset"
    /\ handler \in Handlers
    /\ fopen = FALSE
    /\ ftell = 0
    /\ id3v2_size = "unset"
    /\ events = <<>>
    /\ stderr = <<>>
    /\ log = <<>>
    /\ line = 0
    /\ exc = "none"
    /\ buffer = <<>>
    /\ unpacked = NotCalled

SpecTree == InitTree /\ [][Next]_vars

\* FileInfoBuilder.get_error(): self.error, None from __init__ until
\* on_error(msg) stores msg
get_error ==
    LET told == {k \in 1..Len(events) : events[k].ev = "on_error"}
    IN  IF told = {} THEN "None"
        ELSE events[CHOOSE k \in told : \A j \in told : j <= k].args[1]

\* find_in_tree, after parse_id3v2_file has returned for a file:
\* if not handler.get_error(): yield handler.get_file_info()
Yields == nfiles >= 1 /\ pc = "caller" /\ get_error = "None"

---------------------------------------------------------------------------
(* The string decoders called on their own, on every short buffer *)

\* longest buffer
MaxBuffer == 4

\* the byte values of the buffers: nul, a letter, the high bytes of a high
\* and of a low surrogate, and the two bytes of a byte-order mark
BufferAlphabet == {0, 65, 216, 220, 254, 255}

\* every byte string over BufferAlphabet of 0..n bytes
RECURSIVE Buffers(_)
Buffers(n) ==
    IF n = 0 THEN {<<>>}
    ELSE LET shorter == Buffers(n - 1)
         IN  shorter \cup {s \o <<b>> : s \in shorter, b \in BufferAlphabet}

InitUnpack ==
    /\ files = <<>>
    /\ nfiles = 0
    /\ pc = "caller"
    /\ path = "unset"
    /\ handler = ContractMethods
    /\ fopen = FALSE
    /\ ftell = 0
    /\ id3v2_size = "unset"
    /\ events = <<>>
    /\ stderr = <<>>
    /\ log = <<>>
    /\ line = 0
    /\ exc = "none"
    /\ buffer \in Buffers(MaxBuffer)
    /\ unpacked = NotCalled

\* unpack_string(buffer)
UnpackString ==
    /\ unpacked.fn = "none"
    /\ LET r == unpack_string(buffer)
       IN  unpacked' = [fn |-> "unpack_string", ok |-> TRUE,
                        consumed |-> r.consumed, string |-> r.string]
    /\ UNCHANGED <<files, nfiles, pc, path, handler, fopen, ftell, id3v2_size, events, stderr,
                   log, line, exc, buffer>>

\* unpack_unicode(buffer); ok is FALSE when the call raised UnicodeDecodeError
UnpackUnicode ==
    /\ unpacked.fn = "none"
    /\ LET r == unpack_unicode(buffer)
       IN  unpacked' = [fn |-> "unpack_unicode", ok |-> r.ok,
                        consumed |-> r.consumed, string |-> r.string]
    /\ UNCHANGED <<files, nfiles, pc, path, handler, fopen, ftell, id3v2_size, events, stderr,
                   log, line, exc, buffer>>

NextUnpack == UnpackString \/ UnpackUnicode

SpecUnpack == InitUnpack /\ [][NextUnpack]_vars

---------------------------------------------------------------------------
(* Vocabulary of the properties *)

FrameEvents ==
    {"on_raw_id3v2dot3_frame_header", "on_id3v2dot3_frame_header",
     "on_raw_id3v2dot3_frame", "on_id3v2dot3_frame"}

\* the positions of the calls of a method in the handler's log
Calls(ev) == {k \in 1..Len(events) : events[k].ev = ev}

\* the lines written to stderr for the file being parsed
Diagnostics(msg) == {k \in 1..Len(stderr) : stderr[k].path = path /\ stderr[k].msg = msg}

\* the with block of the current call has been entered and its header part is over
PastHeader == nfiles >= 1 /\ pc # "header" /\ ~(pc = "raised" /\ line = 268)

\* the current call of parse_id3v2_file is over
Ended == nfiles >= 1 /\ pc \in {"caller", "raised"}

\* the file has 10 header bytes that start with "ID3"
HasID3Header == Len(Data) >= 10 /\ Slice(Data, 0, 3) = <<73, 68, 51>>

\* the 10 bytes at the read offset, when the file has them
HeaderAtOffset == Slice(Data, ftell, ftell + 10)

---------------------------------------------------------------------------
(* C1: in every parse the handler's calls are in order: on_path is the     *)
(* first call and the only on_path; on_raw_id3v2_header comes right after  *)
(* it and on_id3v2_header right after that; each frame's calls are         *)
(* on_raw_id3v2dot3_frame_header, on_id3v2dot3_frame_header,               *)
(* on_raw_id3v2dot3_frame, on_id3v2dot3_frame in that order and for the    *)
(* same frame type, and a frame's calls are not interleaved with another   *)
(* frame's.                                                                *)
C1_EventOrder ==
    /\ nfiles >= 1 => Len(events) >= 1
    /\ \A k \in 1..Len(events) :
        LET e == events[k].ev
            prev == IF k > 1 THEN events[k - 1].ev ELSE "none"
        IN  /\ (e = "on_path") <=> (k = 1)
            /\ e = "on_raw_id3v2_header" => prev = "on_path"
            /\ e = "on_id3v2_header" => prev = "on_raw_id3v2_header"
            /\ e = "on_raw_id3v2dot3_frame_header" =>
                   prev \in {"on_id3v2_header", "on_raw_id3v2dot3_frame", "on_id3v2dot3_frame"}
            /\ e = "on_id3v2dot3_frame_header" =>
                   /\ prev = "on_raw_id3v2dot3_frame_header"
                   /\ events[k].args[1] = Slice(events[k - 1].args[1], 0, 4)
            /\ e = "on_raw_id3v2dot3_frame" =>
                   /\ prev = "on_id3v2dot3_frame_header"
                   /\ events[k].args[1] = events[k - 1].args[1]
            /\ e = "on_id3v2dot3_frame" =>
                   /\ prev = "on_raw_id3v2dot3_frame"
                   /\ events[k].args[1] = events[k - 1].args[1]

\* a parse that has delivered two whole frames, records included, and is over
C1_Witness ==
    /\ pc = "caller"
    /\ Cardinality(Calls("on_id3v2dot3_frame")) = 2
    /\ Cardinality(Calls("on_raw_id3v2dot3_frame_header")) >= 2

(* C2: when the loop is at an offset with offset + 10 >= id3v2_size (the   *)
(* declared size + 10), the step reads no byte, calls no handler method,   *)
(* prints nothing and ends the parse.                                      *)
C2_StopAtExtent ==
    [][(pc = "frames" /\ ftell + 10 >= id3v2_size) =>
          /\ pc' = "caller"
          /\ ftell' = ftell
          /\ events' = events
          /\ stderr' = stderr
          /\ ~fopen']_vars

\* a parse that read a frame, then stopped at the extent exactly
C2_Witness ==
    /\ pc = "caller"
    /\ line = 236
    /\ Calls("on_raw_id3v2dot3_frame") # {}
    /\ ftell + 10 = id3v2_size

(* C3: when the 10 bytes read as a frame header have four zero type bytes, *)
(* or four zero size bytes, the step ends the parse having called only     *)
(* on_raw_id3v2dot3_frame_header for them: no parsed header, no raw body,  *)
(* no record, and no further read.                                         *)
C3_StopAtPaddingOrEmpty ==
    [][(/\ pc = "frames"
        /\ ftell + 10 < id3v2_size
        /\ Len(HeaderAtOffset) = 10
        /\ \/ Slice(HeaderAtOffset, 0, 4) = <<0, 0, 0, 0>>
           \/ Slice(HeaderAtOffset, 4, 8) = <<0, 0, 0, 0>>) =>
          /\ pc' = "caller"
          /\ events' = Append(events, [ev |-> "on_raw_id3v2dot3_frame_header",
                                       args |-> <<HeaderAtOffset>>])
          /\ ftell' = ftell + 10
          /\ ~fopen']_vars

\* a parse that ended on a header of size 0 with a type that is not zero,
\* with more bytes left in the file and in the extent
C3_Witness ==
    /\ pc = "caller"
    /\ line = 252
    /\ events[Len(events)].ev = "on_raw_id3v2dot3_frame_header"
    /\ Slice(events[Len(events)].args[1], 0, 4) # <<0, 0, 0, 0>>
    /\ ftell + 10 < id3v2_size
    /\ ftell + 10 < Len(Data)

(* C4: for a 10-byte header that is valid (identifier "ID3", version and  *)
(* revision not 255, size bytes at most 127) with a major version other    *)
(* than 3, once the header part is over the handler has received exactly   *)
(* on_path, on_raw_id3v2_header and on_id3v2_header, a diagnostic has been *)
(* written for the file, and parse_id3v2_file has returned to its caller.  *)
C4_UnsupportedVersionReturns ==
    (/\ PastHeader
     /\ HasID3Header
     /\ Data[4] \notin {3, 255}
     /\ Data[5] # 255
     /\ \A i \in 7..10 : Data[i] <= 127) =>
        /\ [k \in 1..Len(events) |-> events[k].ev]
               = <<"on_path", "on_raw_id3v2_header", "on_id3v2_header">>
        /\ \E k \in 1..Len(stderr) : stderr[k].path = path
        /\ pc = "caller"
        /\ exc = "none"

(* C5: for a 10-byte header that starts with "ID3", has major version 3,   *)
(* a revision other than 255 and a size byte of 128 or more, once the      *)
(* header part is over the parse has returned with the diagnostic "Invalid *)
(* ID3v2 size byte", on_id3v2_header was not called and no frame method    *)
(* was.                                                                    *)
C5_BadSizeByteRejected ==
    (/\ PastHeader
     /\ HasID3Header
     /\ Data[4] = 3
     /\ Data[5] # 255
     /\ \E i \in 7..10 : Data[i] >= 128) =>
        /\ pc = "caller"
        /\ Diagnostics("Invalid ID3v2 size byte") # {}
        /\ Calls("on_id3v2_header") = {}
        /\ \A ev \in FrameEvents : Calls(ev) = {}

\* b0*128^3 + b1*128^2 + b2*128 + b3 of the size bytes of the file
DeclaredSize == Data[7] * 2097152 + Data[8] * 16384 + Data[9] * 128 + Data[10]

(* C6: for a 10-byte header that starts with "ID3", has version and        *)
(* revision other than 255 and its four size bytes b0..b3 in 0..127, once  *)
(* the header part is over on_id3v2_header has been called, as the third   *)
(* call, with size b0*128^3 + b1*128^2 + b2*128 + b3, a value in           *)
(* 0..2^28-1, and id3v2_size, the bound of the loop, is that size + 10.    *)
C6_SynchsafeSize ==
    (/\ PastHeader
     /\ HasID3Header
     /\ Data[4] # 255
     /\ Data[5] # 255
     /\ \A i \in 7..10 : Data[i] <= 127) =>
        /\ Len(events) >= 3
        /\ events[3].ev = "on_id3v2_header"
        /\ events[3].args[4] = DeclaredSize
        /\ DeclaredSize >= 0
        /\ DeclaredSize < 268435456
        /\ id3v2_size = DeclaredSize + 10

\* the loop has been entered for a header with two size bytes that are not 0,
\* one of them in the high half
C6_Witness ==
    /\ pc = "frames"
    /\ Data[7] = 1
    /\ Data[8] = 0
    /\ Data[9] = 127
    /\ events[3].args[4] = 2097152 + 16256 + Data[10]
    /\ id3v2_size = events[3].args[4] + 10

(* C7: for a file of at least 10 bytes whose first three are not "ID3",    *)
(* once the header part is over the parse has returned, exactly one        *)
(* diagnostic has been written for the file, "No ID3v2 identifier", and    *)
(* neither on_id3v2_header nor any frame method has been called.           *)
C7_BadIdentifierRejected ==
    (/\ PastHeader
     /\ Len(Data) >= 10
     /\ Slice(Data, 0, 3) # <<73, 68, 51>>) =>
        /\ pc = "caller"
        /\ Cardinality(Diagnostics("No ID3v2 identifier")) = 1
        /\ Cardinality({k \in 1..Len(stderr) : stderr[k].path = path}) = 1
        /\ Calls("on_id3v2_header") = {}
        /\ \A ev \in FrameEvents : Calls(ev) = {}

\* a file that starts "ID2", goes on as a version 3 tag with a frame, and
\* has been rejected
C7_Witness ==
    /\ pc = "caller"
    /\ line = 292
    /\ Len(Data) > 10
    /\ Slice(Data, 0, 4) = <<73, 68, 50, 3>>
    /\ Diagnostics("No ID3v2 identifier") # {}

\* the frame types whose body starts with an encoding byte
EncodedTypes == TextInfoTypes \cup {APIC, COMM, GEOB, USLT}

(* C8: for a frame of a type with an encoding byte whose raw body has been *)
(* handed over and starts with a byte other than 0 and 1, the diagnostic   *)
(* "Unknown frame encoding" is written, the next call of the handler is    *)
(* not on_id3v2dot3_frame, and the parse has not ended in an exception.    *)
C8_BadEncodingNoRecord ==
    \A k \in Calls("on_raw_id3v2dot3_frame") :
        (/\ events[k].args[1] \in EncodedTypes
         /\ Len(events[k].args[2]) >= 1
         /\ events[k].args[2][1] \notin {0, 1}) =>
            /\ Diagnostics("Unknown frame encoding") # {}
            /\ ~(k < Len(events) /\ events[k + 1].ev = "on_id3v2dot3_frame")

(* C9: when the loop is at a whole frame header inside the extent whose    *)
(* type is not registered and not zero and whose size n > 0 is matched by  *)
(* n body bytes in the file, the step calls on_raw_id3v2dot3_frame_header, *)
(* on_id3v2dot3_frame_header and on_raw_id3v2dot3_frame with the type and  *)
(* exactly those n bytes and nothing else, writes the one diagnostic "Do   *)
(* not know frame type", and leaves the loop running at the next frame.    *)
C9_UnknownFrameType ==
    [][LET h == HeaderAtOffset
           t == Slice(h, 0, 4)
           n == ((h[5] * 256 + h[6]) * 256 + h[7]) * 256 + h[8]
           body == Slice(Data, ftell + 10, ftell + 10 + n)
       IN  (/\ pc = "frames"
            /\ ftell + 10 < id3v2_size
            /\ Len(h) = 10
            /\ t \notin RegisteredTypes
            /\ t # <<0, 0, 0, 0>>
            /\ n > 0
            /\ Len(Data) >= ftell + 10 + n) =>
              /\ Len(body) = n
              /\ events' = events \o
                    << [ev |-> "on_raw_id3v2dot3_frame_header", args |-> <<h>>],
                       [ev |-> "on_id3v2dot3_frame_header", args |-> <<t, n, h[9] * 256 + h[10]>>],
                       [ev |-> "on_raw_id3v2dot3_frame", args |-> <<t, body>>] >>
              /\ stderr' = Append(stderr, [path |-> path, msg |-> "Do not know frame type", arg |-> t])
              /\ pc' = "frames"
              /\ ftell' = ftell + 10 + n]_vars

\* the loop is running after a frame of type ZZZZ whose 2 bytes were handed
\* over raw, with the warning as the last line written
C9_Witness ==
    /\ pc = "frames"
    /\ line = 262
    /\ events[Len(events)].ev = "on_raw_id3v2dot3_frame"
    /\ events[Len(events)].args = <<(<<90, 90, 90, 90>>), (<<7, 7>>)>>
    /\ Len(stderr) >= 1
    /\ stderr[Len(stderr)] = [path |-> path, msg |-> "Do not know frame type", arg |-> <<90, 90, 90, 90>>]

\* the file being parsed is one that the design reports an error of one of
\* the four kinds for: a diagnostic has been written for it, or its valid
\* header has a major version other than 3
ErrorInFile ==
    \/ \E k \in 1..Len(stderr) : stderr[k].path = path
    \/ /\ PastHeader
       /\ HasID3Header
       /\ Data[4] \notin {3, 255}
       /\ Data[5] # 255
       /\ \A i \in 7..10 : Data[i] <= 127

(* C10: when the parse of a file with one of the four errors is over, no   *)
(* frame decoder raised, and the listing has a further file, then          *)
(* parse_id3v2_file has returned and the caller's loop can call it for the *)
(* next file.                                                              *)
C10_NoErrorIsFatal ==
    (Ended /\ ErrorInFile /\ line # 260 /\ nfiles < Len(files)) =>
        /\ exc = "none"
        /\ ENABLED ParseFile

(* C11: in every state in which the call of parse_id3v2_file is over, the  *)
(* file it opened is closed, however the call ended: the loop ran to its   *)
(* end, a diagnostic was followed by a return, the version was not 3, or   *)
(* an exception was raised while a frame was decoded.  A call that is      *)
(* about to open its file finds no file open, so at most one is open.      *)
C11_FileClosed ==
    /\ Ended => ~fopen
    /\ pc = "header" => ~fopen
    /\ fopen => pc = "frames"

\* a call that ended in an exception raised by a frame decoder, after the
\* file had been open through the header and one whole frame
C11_Witness ==
    /\ pc = "raised"
    /\ line = 260
    /\ ~fopen
    /\ Calls("on_id3v2dot3_frame") # {}
    /\ log[Len(log)].name = "on_raw_id3v2dot3_frame"

(* C12: for every text information frame whose body is whole in the file  *)
(* (as many bytes as the frame header declares, n) and starts with the     *)
(* encoding byte 0, the record handed to on_id3v2dot3_frame right after    *)
(* the raw body has the one field frame_string, and it is the n - 1 bytes  *)
(* after the encoding byte, in order.                                      *)
C12_Latin1Text ==
    \A k \in Calls("on_raw_id3v2dot3_frame") :
        LET frame_type == events[k].args[1]
            body == events[k].args[2]
            n == events[k - 1].args[2]
        IN  (frame_type \in TextInfoTypes /\ Len(body) = n /\ body[1] = 0) =>
                /\ k < Len(events)
                /\ events[k + 1].ev = "on_id3v2dot3_frame"
                /\ events[k + 1].args[2] = [frame_string |-> [i \in 1..(n - 1) |-> body[i + 1]]]

\* the body 00 'R' 'o' 'c' 'k' of a frame of size 5 has been decoded to "Rock"
C12_Witness ==
    /\ Len(events) = 7
    /\ events[5].args[2] = 5
    /\ events[6].args[2] = <<0, 82, 111, 99, 107>>
    /\ events[7].ev = "on_id3v2dot3_frame"
    /\ events[7].args[2].frame_string = <<82, 111, 99, 107>>

(* C13: for every text T, a text information frame whose body is the       *)
(* encoding byte 1, T in UTF-16 little-endian and the terminator 00 00 is  *)
(* decoded to the record that the frame with encoding byte 0 and T as its  *)
(* bytes is decoded to: frame_string is T, without the terminator.         *)
C13_Utf16SameAsLatin1 ==
    \A k \in Calls("on_raw_id3v2dot3_frame") : \A text \in Latin1Texts :
        (/\ events[k].args[1] \in TextInfoTypes
         /\ events[k].args[2] = <<1>> \o Utf16LE(text) \o <<0, 0>>) =>
            /\ k < Len(events)
            /\ events[k + 1].ev = "on_id3v2dot3_frame"
            /\ events[k + 1].args[2] = parse_text_info_frame(<<0>> \o text).dict

(* C14: for every COMM frame whose body is the encoding byte 1, three      *)
(* language bytes, the unit 00 00 and then a text that is not empty, in    *)
(* UTF-16 little-endian with or without a byte-order mark, the record has  *)
(* descriptor_string "" and comment_string the whole text: the text        *)
(* starts at body offset 6 and none of it is taken as descriptor.          *)
C14_EmptyDescriptor ==
    \A k \in Calls("on_raw_id3v2dot3_frame") : \A mark \in Marks : \A text \in Texts \ {<<>>} :
        LET body == events[k].args[2]
        IN  (/\ events[k].args[1] = COMM
             /\ Len(body) > 6
             /\ body[1] = 1
             /\ Slice(body, 4, 6) = <<0, 0>>
             /\ SliceFrom(body, 6) = mark \o Utf16LE(text)) =>
                /\ k < Len(events)
                /\ events[k + 1].ev = "on_id3v2dot3_frame"
                /\ events[k + 1].args[2].descriptor_string = <<>>
                /\ events[k + 1].args[2].comment_string = text

\* a comment in English with no descriptor and the text euro sign, "A" has
\* been decoded
C14_Witness ==
    /\ Len(events) = 7
    /\ events[6].args = << COMM, <<1, 101, 110, 103, 0, 0, 172, 32, 65, 0>> >>
    /\ events[7].ev = "on_id3v2dot3_frame"
    /\ events[7].args[2] = [language |-> <<101, 110, 103>>, descriptor_string |-> <<>>,
                            comment_string |-> <<8364, 65>>]

\* the least index i >= from, from + step, ... of a terminator of width
\* step (step nul bytes) in b, or Len(b) when there is none; 0-based
RECURSIVE FirstTerminator(_, _, _)
FirstTerminator(b, from, step) ==
    IF from + step > Len(b) THEN Len(b)
    ELSE IF \A j \in 1..step : b[from + j] = 0 THEN from
    ELSE FirstTerminator(b, from + step, step)

(* C15: for every APIC frame whose body is whole in the file (n bytes, as  *)
(* the frame header declares), has encoding byte 0 or 1, a MIME string     *)
(* ended by a nul byte, a picture type byte and a description ended by its *)
(* terminator (one nul byte for encoding 0, an aligned unit 00 00 for      *)
(* encoding 1) that the codec can decode, the record's picture_data is the *)
(* tail of the body and its length is                                      *)
(* n - (1 + (mimeLen + 1) + 1 + (descLen + terminatorBytes)).              *)
C15_PictureLength ==
    \A k \in Calls("on_raw_id3v2dot3_frame") :
        LET body == events[k].args[2]
            n == events[k - 1].args[2]
            terminatorBytes == IF body[1] = 0 THEN 1 ELSE 2
            mimeEnd == FirstTerminator(body, 1, 1)
            mimeLen == mimeEnd - 1
            descStart == mimeEnd + 2
            descEnd == FirstTerminator(body, descStart, terminatorBytes)
            descLen == descEnd - descStart
        IN  (/\ events[k].args[1] = APIC
             /\ Len(body) = n
             /\ body[1] \in {0, 1}
             /\ mimeEnd < n
             /\ descStart <= n
             /\ descEnd < n
             /\ body[1] = 1 => decode_utf16(Slice(body, descStart, descEnd)).ok) =>
                /\ k < Len(events)
                /\ events[k + 1].ev = "on_id3v2dot3_frame"
                /\ Len(events[k + 1].args[2].picture_data)
                       = n - (1 + (mimeLen + 1) + 1 + (descLen + terminatorBytes))
                /\ events[k + 1].args[2].picture_data
                       = SliceFrom(body, n - Len(events[k + 1].args[2].picture_data))

\* a picture of 4 bytes after the MIME type "i/p", the picture type and the
\* description "d" with a byte-order mark, in a frame of size 16
C15_Witness ==
    /\ Len(events) = 7
    /\ events[5].args = <<APIC, 16, 0>>
    /\ events[6].args[2] = <<1, 105, 47, 112, 0, 3, 255, 254, 100, 0, 0, 0, 9, 0, 0, 7>>
    /\ events[7].ev = "on_id3v2dot3_frame"
    /\ events[7].args[2].picture_data = <<9, 0, 0, 7>>

(* C16: for a 10-byte header that starts with "ID3", has major version 3   *)
(* and the revision byte 255, once the header part is over the parse has   *)
(* returned with the diagnostic "Invalid ID3v2 version", on_id3v2_header   *)
(* was not called and no frame method was.                                 *)
C16_InvalidVersionRejected ==
    (/\ PastHeader
     /\ HasID3Header
     /\ Data[4] = 3
     /\ Data[5] = 255) =>
        /\ pc = "caller"
        /\ Diagnostics("Invalid ID3v2 version") # {}
        /\ Calls("on_id3v2_header") = {}
        /\ \A ev \in FrameEvents : Calls(ev) = {}

(* C17: when the loop is at an offset with offset + 10 < id3v2_size and    *)
(* the file has fewer than 10 bytes left, the step writes the diagnostic   *)
(* "Frame header not 10 bytes" for the file, calls neither                 *)
(* on_id3v2dot3_frame_header nor on_raw_id3v2dot3_frame nor                *)
(* on_id3v2dot3_frame, and ends the parse with a return.                   *)
C17_ShortFrameHeader ==
    [][(/\ pc = "frames"
        /\ ftell + 10 < id3v2_size
        /\ Len(Data) - ftell < 10) =>
          /\ pc' = "caller"
          /\ exc' = "none"
          /\ stderr' = Append(stderr, [path |-> path, msg |-> "Frame header not 10 bytes", arg |-> <<>>])
          /\ \A j \in (Len(events) + 1)..Len(events') :
                events'[j].ev \notin {"on_id3v2dot3_frame_header", "on_raw_id3v2dot3_frame",
                                      "on_id3v2dot3_frame"}]_vars

\* a parse that delivered a whole frame and then ended on the 3 bytes left
\* in the file, inside the extent
C17_Witness ==
    /\ pc = "caller"
    /\ line = 244
    /\ Calls("on_id3v2dot3_frame") # {}
    /\ events[Len(events)].ev = "on_raw_id3v2dot3_frame_header"
    /\ Len(events[Len(events)].args[1]) = 3
    /\ ftell = Len(Data)
    /\ ftell + 10 < id3v2_size
    /\ Diagnostics("Frame header not 10 bytes") # {}

\* the diagnostics that report a malformed or short tag header or frame header
StructuralMessages ==
    {"No ID3v2 header", "No ID3v2 identifier", "Invalid ID3v2 version",
     "Invalid ID3v2 size byte", "Frame header not 10 bytes"}

\* the positions in the log of the current call of its structural diagnostics
StructuralErrors ==
    {i \in 1..Len(log) : log[i].op = "print" /\ log[i].name \in StructuralMessages}

(* C18: in the parse of one file at most one structural diagnostic is      *)
(* written; it is written to stderr tagged with the path of the file being *)
(* parsed; after it the handler gets neither on_id3v2_header nor any frame *)
(* call for that file, and the call of parse_id3v2_file has returned.      *)
C18_OneStructuralError ==
    /\ Cardinality(StructuralErrors) <= 1
    /\ \A i \in StructuralErrors :
        /\ \A j \in (i + 1)..Len(log) :
              ~(log[j].op = "call" /\ log[j].name \in FrameEvents \cup {"on_id3v2_header"})
        /\ stderr # <<>>
        /\ stderr[Len(stderr)].path = files[nfiles].path
        /\ stderr[Len(stderr)].msg = log[i].name
        /\ pc = "caller"
        /\ exc = "none"

\* the second file of a listing has been parsed up to a frame header cut
\* short by the end of the file, after the first file had an error of its own
C18_Witness ==
    /\ nfiles = 2
    /\ pc = "caller"
    /\ Len(stderr) = 2
    /\ stderr[1].path = "a.mp3"
    /\ stderr[2] = [path |-> "b.mp3", msg |-> "Frame header not 10 bytes", arg |-> <<>>]
    /\ Calls("on_id3v2dot3_frame") # {}
    /\ log[Len(log)].op = "print"

C20_OffsetAdvance ==
    [][/\ pc = "header" /\ pc' = "frames" => ftell' = 10
       /\ pc = "frames" => ftell' >= ftell
       /\ LET h == HeaderAtOffset
              n == ((h[5] * 256 + h[6]) * 256 + h[7]) * 256 + h[8]
          IN  (/\ pc = "frames"
               /\ ftell + 10 < id3v2_size
               /\ Len(h) = 10
               /\ Slice(h, 0, 4) # <<0, 0, 0, 0>>
               /\ n > 0
               /\ Len(Data) >= ftell + 10 + n) =>
                 /\ ftell' = ftell + 10 + n
                 /\ Len(events') >= Len(events) + 3
                 /\ events'[Len(events) + 3].ev = "on_raw_id3v2dot3_frame"
                 /\ events'[Len(events) + 3].args[2] = Slice(Data, ftell + 10, ftell + 10 + n)]_vars

\* the header of a second frame has been read from offset 22, the byte
\* right after the 2-byte body of the first, and its body has been read too
C20_Witness ==
    /\ nfiles >= 1
    /\ pc = "frames"
    /\ ftell = 34
    /\ Cardinality(Calls("on_raw_id3v2dot3_frame_header")) = 2
    /\ events[4].args[1] = Slice(Data, 10, 20)
    /\ events[6].args[2] = Slice(Data, 20, 22)
    /\ events[Len(events) - 3].ev = "on_raw_id3v2dot3_frame_header"
    /\ events[Len(events) - 3].args[1] = Slice(Data, 22, 32)

(* C21: an iteration at a whole frame header with offset + 10 <            *)
(* id3v2_size, a type that is not zero and a size n > 0 whose n body bytes *)
(* are in the file but end after id3v2_size reads all n bytes and hands    *)
(* all n to on_raw_id3v2dot3_frame (and, for a text frame with encoding 0, *)
(* the n - 1 text bytes to on_id3v2dot3_frame); the iteration does not end *)
(* the parse with a return, and leaves the offset at or past the extent,   *)
(* where the next iteration's check stops the loop.                        *)
C21_BodyCrossesExtent ==
    [][LET h == HeaderAtOffset
           t == Slice(h, 0, 4)
           n == ((h[5] * 256 + h[6]) * 256 + h[7]) * 256 + h[8]
           body == Slice(Data, ftell + 10, ftell + 10 + n)
           raw == Len(events) + 3
       IN  (/\ pc = "frames"
            /\ ftell + 10 < id3v2_size
            /\ Len(h) = 10
            /\ t # <<0, 0, 0, 0>>
            /\ n > 0
            /\ Len(Data) >= ftell + 10 + n
            /\ ftell + 10 + n > id3v2_size) =>
              /\ ftell' = ftell + 10 + n
              /\ Len(events') >= raw
              /\ events'[raw] = [ev |-> "on_raw_id3v2dot3_frame", args |-> <<t, body>>]
              /\ Len(body) = n
              /\ (t \in TextInfoTypes /\ body[1] = 0) =>
                    /\ Len(events') = raw + 1
                    /\ events'[raw + 1].args[2] = [frame_string |-> SliceFrom(body, 1)]
              /\ pc' # "caller"
              /\ AtExtent(ftell', id3v2_size')]_vars

\* a parse that handed over the whole 2-byte body of a text frame whose
\* extent ended after the body's first byte, and stopped at the next check
C21_Witness ==
    /\ nfiles >= 1
    /\ pc = "caller"
    /\ line = 236
    /\ Len(events) = 7
    /\ id3v2_size = 21
    /\ ftell = 22
    /\ events[6].ev = "on_raw_id3v2dot3_frame"
    /\ Len(events[6].args[2]) = 2
    /\ events[7].args[2] = [frame_string |-> <<65>>]

\* the lines of stderr written for the file being parsed
OwnDiagnostics ==
    LET own == {k \in 1..Len(stderr) : stderr[k].path = path}
    IN  SubSeq(stderr, Len(stderr) - Cardinality(own) + 1, Len(stderr))

(* C22: whatever files the parser instance has parsed before, when its     *)
(* call for a file is over the handler's calls, the diagnostics written    *)
(* for the file and the way the call ended are those of an instance that   *)
(* parses this file as its first; and while the frames of a file are       *)
(* iterated id3v2_size is the value computed from this file's size bytes.  *)
C22_NoStateAcrossFiles ==
    /\ Ended =>
        LET fresh == FreshParse(path, Data, handler)
        IN  /\ events = fresh.events
            /\ OwnDiagnostics = fresh.stderr
            /\ exc = fresh.exc
    /\ pc = "frames" =>
        id3v2_size = SizeLoop(UnpackSizeBytes(Slice(Data, 0, 10)), 0).size + 10

\* the second file of a listing has been parsed to the end of its two
\* frames with its own extent, 137, after a first file whose extent was 22
C22_Witness ==
    /\ nfiles = 2
    /\ pc = "caller"
    /\ Len(files[1].data) = 22
    /\ files[1].data[10] = 12
    /\ Slice(files[1].data, 0, 4) = <<73, 68, 51, 3>>
    /\ id3v2_size = 137
    /\ Cardinality(Calls("on_id3v2dot3_frame")) = 2
    /\ line = 244

\* flags bytes: none set, experimental, extended header, unsynchronization,
\* all three
FlagBytes == {0, 32, 64, 128, 224}

\* the file with its flags byte replaced
WithFlags(data, flags) == [data EXCEPT ![6] = flags]

\* the frame calls of a handler's log, in order
FrameCallsOf(calls) ==
    LET IsFrameCall(e) == e.ev \in FrameEvents
    IN  SelectSeq(calls, IsFrameCall)

(* C23: for a file with a version 3 header and any other flags byte, the   *)
(* parse of the file with that flags byte makes the same frame calls with  *)
(* the same bytes, writes the same diagnostics and ends the same way; its  *)
(* on_id3v2_header call differs in the flags argument only; the first      *)
(* frame header is the 10 bytes at offset 10 and every raw body is the     *)
(* bytes of the file as they are stored.                                   *)
C23_FlagsIgnored ==
    (Ended /\ HasID3Header /\ Data[4] = 3 /\ Calls("on_id3v2_header") # {}) =>
        /\ \A flags \in FlagBytes :
            LET other == FreshParse(path, WithFlags(Data, flags), handler)
            IN  /\ FrameCallsOf(other.events) = FrameCallsOf(events)
                /\ other.stderr = OwnDiagnostics
                /\ other.exc = exc
                /\ other.events[3].ev = "on_id3v2_header"
                /\ other.events[3].args = [events[3].args EXCEPT ![3] = SignedByte(flags)]
        /\ Len(events) >= 4 => events[4].args[1] = Slice(Data, 10, 20)
        /\ \A k \in Calls("on_raw_id3v2dot3_frame") :
              \E at \in 0..Len(Data) :
                  events[k].args[2] = Slice(Data, at, at + events[k - 1].args[2])

\* a frame whose body holds FF 00, the pair that unsynchronization would
\* have written for FF, has been handed over as stored
C23_Witness ==
    /\ nfiles >= 1
    /\ pc = "caller"
    /\ Len(events) >= 7
    /\ events[6].ev = "on_raw_id3v2dot3_frame"
    /\ events[6].args[2] = <<255, 0, 65>>
    /\ events[7].ev = "on_id3v2dot3_frame"

(* C24: for every frame of a registered type whose raw body of at least    *)
(* one byte has been handed over, the decoder has returned: the next call  *)
(* is on_id3v2dot3_frame, with a record or, after the diagnostic "Unknown  *)
(* frame encoding", with the empty one, and no exception has left the      *)
(* decoder.                                                                *)
C24_DecoderNeverRaises ==
    \A k \in Calls("on_raw_id3v2dot3_frame") :
        (events[k].args[1] \in RegisteredTypes /\ Len(events[k].args[2]) >= 1) =>
            /\ ~(pc = "raised" /\ line = 260)
            /\ k < Len(events)
            /\ events[k + 1].ev = "on_id3v2dot3_frame"
            /\ \/ events[k + 1].args[2] # <<>>
               \/ Diagnostics("Unknown frame encoding") # {}

(* C25: every on_id3v2dot3_frame_header call that a finished step has made *)
(* is followed at once by one on_raw_id3v2dot3_frame call with the same    *)
(* type code, for registered and unregistered types; every                 *)
(* on_id3v2dot3_frame call comes right after the on_raw_id3v2dot3_frame    *)
(* call of its frame; and there are never more on_id3v2dot3_frame calls    *)
(* than on_raw_id3v2dot3_frame calls, nor other than one raw body per      *)
(* parsed frame header.                                                    *)
C25_RawBodyPerFrame ==
    /\ \A k \in Calls("on_id3v2dot3_frame_header") :
          /\ k < Len(events)
          /\ events[k + 1].ev = "on_raw_id3v2dot3_frame"
          /\ events[k + 1].args[1] = events[k].args[1]
    /\ \A k \in Calls("on_raw_id3v2dot3_frame") :
          events[k - 1].ev = "on_id3v2dot3_frame_header"
    /\ \A k \in Calls("on_id3v2dot3_frame") :
          /\ events[k - 1].ev = "on_raw_id3v2dot3_frame"
          /\ events[k - 1].args[1] = events[k].args[1]
    /\ Cardinality(Calls("on_raw_id3v2dot3_frame")) = Cardinality(Calls("on_id3v2dot3_frame_header"))
    /\ Cardinality(Calls("on_id3v2dot3_frame")) <= Cardinality(Calls("on_raw_id3v2dot3_frame"))

\* a parse of two frames, the first of a type that is not registered (raw
\* body and no record), the second a text frame (raw body, then record)
C25_Witness ==
    /\ nfiles >= 1
    /\ pc = "caller"
    /\ Len(events) = 10
    /\ events[5].args[1] \notin RegisteredTypes
    /\ events[6].ev = "on_raw_id3v2dot3_frame"
    /\ events[7].ev = "on_raw_id3v2dot3_frame_header"
    /\ events[9].ev = "on_raw_id3v2dot3_frame"
    /\ events[10].ev = "on_id3v2dot3_frame"
    /\ events[10].args[1] \in TextInfoTypes

(* C26: unpack_string, called on any buffer, returns (consumed, string)    *)
(* with: if the buffer has a nul byte, string is the bytes before the      *)
(* first one and consumed is len(string) + 1; if it has none, string is    *)
(* empty and consumed is len(buffer); and 0 <= consumed <= len(buffer).    *)
C26_UnpackString ==
    unpacked.fn = "unpack_string" =>
        LET nuls == {i \in 1..Len(buffer) : buffer[i] = 0}
        IN  /\ unpacked.ok
            /\ unpacked.consumed >= 0
            /\ unpacked.consumed <= Len(buffer)
            /\ nuls # {} =>
                 LET first == CHOOSE i \in nuls : \A j \in nuls : i <= j
                 IN  /\ unpacked.string = [i \in 1..(first - 1) |-> buffer[i]]
                     /\ unpacked.consumed = Len(unpacked.string) + 1
            /\ nuls = {} =>
                 /\ unpacked.string = <<>>
                 /\ unpacked.consumed = Len(buffer)

\* unpack_string has returned (3, "AA") for a buffer of four bytes with the
\* first nul at index 2
C26_Witness ==
    /\ unpacked.fn = "unpack_string"
    /\ buffer = <<65, 65, 0, 255>>
    /\ unpacked.consumed = 3
    /\ unpacked.string = <<65, 65>>

(* C27: unpack_unicode, called on any buffer, scans two-byte units at even *)
(* offsets: if a 0x0000 unit lies at an even offset 2k with                *)
(* 2k + 1 < len(buffer), it returns the text of the k units before the     *)
(* first such unit (a leading byte-order mark names the byte order and is  *)
(* not part of the text) with consumed = 2k + 2; otherwise it returns the  *)
(* empty string with consumed = len(buffer).  In both cases it returns.    *)
C27_UnpackUnicode ==
    unpacked.fn = "unpack_unicode" =>
        LET terms == {k \in 0..Len(buffer) :
                         /\ 2 * k + 1 < Len(buffer)
                         /\ buffer[2 * k + 1] = 0
                         /\ buffer[2 * k + 2] = 0}
        IN  /\ unpacked.ok
            /\ terms # {} =>
                 LET k     == CHOOSE i \in terms : \A j \in terms : i <= j
                     mark  == IF k >= 1 THEN buffer[1] + 256 * buffer[2] ELSE 0
                     first == IF mark = 65279 \/ mark = 65534 THEN 2 ELSE 1
                     unit(n) == IF mark = 65534
                                THEN buffer[2 * n] + 256 * buffer[2 * n - 1]
                                ELSE buffer[2 * n - 1] + 256 * buffer[2 * n]
                 IN  /\ unpacked.consumed = 2 * k + 2
                     /\ Len(unpacked.string) = k - (first - 1)
                     /\ \A n \in first..k : unpacked.string[n - (first - 1)] = unit(n)
            /\ terms = {} =>
                 /\ unpacked.string = <<>>
                 /\ unpacked.consumed = Len(buffer)

(* C28: every handler method parse_id3v2_file invokes during a parse with  *)
(* aatpath = False is a method of the FileInfoBuilder find_in_tree passes  *)
(* in: with that handler no call of parse_id3v2_file ends in the           *)
(* AttributeError of a handler method that is missing.                     *)
C28_BuilderHasEveryMethod ==
    handler = FileInfoBuilderMethods =>
        ~(pc = "raised" /\ exc = "AttributeError" /\ line # 324)

\* the diagnostics written for the file being parsed that report a
\* structural error
ReportedStructuralErrors ==
    {k \in 1..Len(stderr) : stderr[k].path = path /\ stderr[k].msg \in StructuralMessages}

=============================================================================
